---- MODULE Spec2Model ----
(***************************************************************************)
(* Model of http_types::content::AcceptEncoding                            *)
(* (src/src/content/accept_encoding.rs): the entry list and wildcard flag, *)
(* push / set_wildcard / sort / negotiate, the header serializer `value`   *)
(* and the parser `from_headers`.                                          *)
(*                                                                         *)
(* Weights are f32 values in [0, 1]; they are modelled as integers in      *)
(* units of 1/10000 (8000 is 0.8, 10000 is 1.0).  An Option is a sequence  *)
(* of length 0 (None) or 1 (Some).  A header value (a string) is a          *)
(* sequence of atoms: commas, blanks, `*` and directive texts.             *)
(***************************************************************************)
EXTENDS Integers, Sequences, FiniteSets, TLC

VARIABLES entries, wildcard, headers, last

vars == <<entries, wildcard, headers, last>>

(* ------------------------------ bounds -------------------------------- *)

MaxEntries == 3
MaxAvail == 2
MaxParts == 3
MaxValues == 2
MaxApply == 2

(* --------------------------- value domains ---------------------------- *)

NotAcceptable == 406

Encodings == {"Gzip", "Brotli", "Identity"}

Weights == {4000, 8000}

ProposalsOver(W) == [encoding : Encodings, weight : {<<>>} \cup {<<w>> : w \in W}]

Proposals == ProposalsOver(Weights)

Range(s) == {s[i] : i \in DOMAIN s}

BoundedSeq(S, n) == UNION {[1..k -> S] : k \in 0..n}

AvailLists ==
  {a \in BoundedSeq(Encodings, MaxAvail) :
     \A i, j \in DOMAIN a : i # j => a[i] # a[j]}

SetMin(S) == CHOOSE x \in S : \A y \in S : x <= y

(* --------------------- the last operation's record -------------------- *)

NoOut == [kind |-> "none", encoding |-> "", status |-> 0]

NoRes == [kind |-> "none", entries |-> <<>>, wildcard |-> FALSE]

Op(name, pre, avail, out, prev, res) ==
  [op |-> name, pre |-> pre, avail |-> avail, out |-> out, prev |-> prev,
   res |-> res]

Plain(name) == Op(name, <<>>, <<>>, NoOut, <<>>, NoRes)

(* ------------------------------- sort --------------------------------- *)

\* PartialOrd of two proposals: an explicit weight is greater than a missing
\* one, two missing weights are incomparable.
partial_cmp(a, b) ==
  IF a.weight # <<>> /\ b.weight # <<>>
  THEN (IF a.weight[1] < b.weight[1] THEN "Less"
        ELSE IF a.weight[1] > b.weight[1] THEN "Greater" ELSE "Equal")
  ELSE IF a.weight # <<>> THEN "Greater"
  ELSE IF b.weight # <<>> THEN "Less"
  ELSE "None"

\* The comparator of sort_by_weight on (index, item) pairs: TRUE when a is
\* ordered before b.
Before(a, b) ==
  LET o == partial_cmp(b.item, a.item)
  IN  IF o \in {"None", "Equal"} THEN b.idx < a.idx ELSE o = "Less"

RECURSIVE Insert(_, _)
Insert(x, s) ==
  IF s = <<>> THEN <<x>>
  ELSE IF Before(x, Head(s)) THEN <<x>> \o s
  ELSE <<Head(s)>> \o Insert(x, Tail(s))

RECURSIVE SortArr(_)
SortArr(arr) ==
  IF arr = <<>> THEN <<>> ELSE Insert(Head(arr), SortArr(Tail(arr)))

sort_by_weight(props) ==
  LET arr == [i \in DOMAIN props |-> [idx |-> i, item |-> props[i]]]
      out == SortArr(arr)
  IN  [k \in DOMAIN out |-> out[k].item]

\* A sort that keeps the declaration order among equal weights.
RECURSIVE InsertStable(_, _)
InsertStable(x, s) ==
  IF s = <<>> THEN <<x>>
  ELSE IF partial_cmp(x, Head(s)) = "Less" THEN <<Head(s)>> \o InsertStable(x, Tail(s))
  ELSE IF partial_cmp(Head(s), x) = "Less" THEN <<x>> \o s
  ELSE <<Head(s)>> \o InsertStable(x, Tail(s))

RECURSIVE sort_keep_ties(_)
sort_keep_ties(es) ==
  IF es = <<>> THEN <<>>
  ELSE InsertStable(es[Len(es)], sort_keep_ties(SubSeq(es, 1, Len(es) - 1)))

\* A sort that orders a missing weight as the weight 1.0.
sort_none_as_one(es) ==
  LET eff(e) == IF e.weight = <<>> THEN 10000 ELSE e.weight[1]
      arr == [i \in DOMAIN es |-> [idx |-> i, item |-> es[i]]]
      lt(a, b) == eff(a.item) > eff(b.item)
                  \/ (eff(a.item) = eff(b.item) /\ a.idx > b.idx)
      pos(i) == Cardinality({j \in DOMAIN es : lt(arr[j], arr[i])}) + 1
  IN  [k \in DOMAIN es |-> es[CHOOSE i \in DOMAIN es : pos(i) = k]]

sort(es) == sort_by_weight(es)

(* ----------------------------- negotiate ------------------------------ *)

Ok(e) == [kind |-> "Ok", encoding |-> e, status |-> 0]

Err(s) == [kind |-> "Err", encoding |-> "", status |-> s]

\* The scan follows the server's list instead of the client's entries.
negotiate_server_order(es, wc, available) ==
  LET sorted == sort(es)
      hits == {i \in DOMAIN available :
                 \E k \in DOMAIN sorted : sorted[k].encoding = available[i]}
  IN  IF hits # {} THEN Ok(available[SetMin(hits)])
      ELSE IF wc /\ available # <<>> THEN Ok(available[1])
      ELSE Err(NotAcceptable)

\* The wildcard fallback takes the last available encoding.
negotiate_fallback_last(es, wc, available) ==
  LET sorted == sort(es)
      hits == {k \in DOMAIN sorted : sorted[k].encoding \in Range(available)}
  IN  IF hits # {} THEN Ok(sorted[SetMin(hits)].encoding)
      ELSE IF wc /\ available # <<>> THEN Ok(available[Len(available)])
      ELSE Err(NotAcceptable)

\* The fallback is taken without looking at the wildcard flag.
negotiate_always_fallback(es, wc, available) ==
  LET sorted == sort(es)
      hits == {k \in DOMAIN sorted : sorted[k].encoding \in Range(available)}
  IN  IF hits # {} THEN Ok(sorted[SetMin(hits)].encoding)
      ELSE IF available # <<>> THEN Ok(available[1])
      ELSE Err(NotAcceptable)

\* The outcome of AcceptEncoding::negotiate on the entries es.
negotiate(es, wc, available) ==
  LET sorted == sort(es)
      hits == {k \in DOMAIN sorted : sorted[k].encoding \in Range(available)}
  IN  IF hits # {} THEN Ok(sorted[SetMin(hits)].encoding)
      ELSE IF wc /\ available # <<>> THEN Ok(available[1])
      ELSE Err(NotAcceptable)

(* ------------------------- aggregate operations ----------------------- *)

New ==
  /\ entries' = <<>>
  /\ wildcard' = FALSE
  /\ last' = Plain("new")
  /\ UNCHANGED headers

Push(prop) ==
  /\ Len(entries) < MaxEntries
  /\ entries' = Append(entries, prop)
  /\ last' = Plain("push")
  /\ UNCHANGED <<wildcard, headers>>

SetWildcard(b) ==
  /\ wildcard' = b
  /\ last' = Plain("set_wildcard")
  /\ UNCHANGED <<entries, headers>>

\* iter_mut / IntoIterator for &mut AcceptEncoding: the traversal hands out
\* the i-th entry mutably and the caller overwrites it.
IterMut(i, prop) ==
  /\ i \in DOMAIN entries
  /\ entries' = [entries EXCEPT ![i] = prop]
  /\ last' = Plain("iter_mut")
  /\ UNCHANGED <<wildcard, headers>>

Sort ==
  /\ entries' = sort(entries)
  /\ last' = Op("sort", entries, <<>>, NoOut, <<>>, NoRes)
  /\ UNCHANGED <<wildcard, headers>>

Negotiate(available) ==
  /\ entries' = sort(entries)
  /\ last' = Op("negotiate", entries, available,
                negotiate(entries, wildcard, available),
                IF last.op = "negotiate" /\ last.avail = available
                THEN <<last.out>> ELSE <<>>,
                NoRes)
  /\ UNCHANGED <<wildcard, headers>>

Init ==
  /\ entries = <<>>
  /\ wildcard = FALSE
  /\ headers = <<>>
  /\ last = Plain("new")

Next ==
  \/ New
  \/ \E prop \in Proposals : Push(prop)
  \/ \E b \in BOOLEAN : SetWildcard(b)
  \/ \E i \in 1..MaxEntries, prop \in Proposals : IterMut(i, prop)
  \/ Sort
  \/ \E available \in AvailLists : Negotiate(available)

Spec == Init /\ [][Next]_vars

(* --------------------------- header text ------------------------------ *)

\* A header value is a sequence of atoms: a comma, a blank, `*`, or the text
\* of one directive, `coding` or `coding;q=value`.  qform says whether `;q=`
\* is absent, holds a number (qval, in 1/10000) or holds no number.
Atom(kind, coding, qform, qval) ==
  [kind |-> kind, coding |-> coding, qform |-> qform, qval |-> qval]

Comma == Atom("comma", "", "absent", 0)

Space == Atom("space", "", "absent", 0)

Star == Atom("star", "", "absent", 0)

Directive(coding, qform, qval) == Atom("dir", coding, qform, qval)

\* The texts between commas that the parser is fed: nothing, a blank, `*`,
\* a known and an unknown coding without weight, with q=0.8, with q=abc and
\* with q=1.5, a second known coding, and some of these padded with blanks.
InputTexts ==
  {<<>>, <<Space>>, <<Star>>, <<Space, Star, Space>>}
    \cup {<<Directive(c, "absent", 0)>> : c \in {"gzip", "br", "x-custom"}}
    \cup {<<Directive(c, "number", v)>> : c \in {"gzip", "x-custom"}, v \in {8000, 15000}}
    \cup {<<Directive(c, "garbage", 0)>> : c \in {"gzip", "x-custom"}}
    \cup {<<Space, Directive("gzip", "number", 8000)>>}

\* Display of Encoding / the names Encoding::from_str knows.
EncodingText(e) ==
  IF e = "Gzip" THEN "gzip" ELSE IF e = "Brotli" THEN "br" ELSE "identity"

RECURSIVE TrimStart(_)
TrimStart(t) ==
  IF t # <<>> /\ Head(t) = Space THEN TrimStart(Tail(t)) ELSE t

RECURSIVE TrimEnd(_)
TrimEnd(t) ==
  IF t # <<>> /\ t[Len(t)] = Space THEN TrimEnd(SubSeq(t, 1, Len(t) - 1)) ELSE t

\* str::trim
Trim(t) == TrimEnd(TrimStart(t))

\* str::split(','): the empty string has one, empty, part.
RECURSIVE SplitComma(_)
SplitComma(t) ==
  LET commas == {i \in DOMAIN t : t[i] = Comma}
  IN  IF commas = {} THEN <<t>>
      ELSE LET i == SetMin(commas)
           IN  <<SubSeq(t, 1, i - 1)>> \o SplitComma(SubSeq(t, i + 1, Len(t)))

\* value.as_str().trim().split(',') with each part trimmed.
TrimmedParts(value) ==
  LET ps == SplitComma(Trim(value)) IN [k \in DOMAIN ps |-> Trim(ps[k])]

\* The parts without the trim of each part.
UntrimmedParts(value) == SplitComma(Trim(value))

\* for value in headers { for part in ... }: the parts of all occurrences.
RECURSIVE Flatten(_)
Flatten(values) ==
  IF values = <<>> THEN <<>>
  ELSE TrimmedParts(Head(values)) \o Flatten(Tail(values))

RECURSIVE FlattenUntrimmed(_)
FlattenUntrimmed(values) ==
  IF values = <<>> THEN <<>>
  ELSE UntrimmedParts(Head(values)) \o FlattenUntrimmed(Tail(values))

(* ------------------------------ parser -------------------------------- *)

Encoding_from_str(text) ==
  IF \E e \in Encodings : EncodingText(e) = text
  THEN <<CHOOSE e \in Encodings : EncodingText(e) = text>>
  ELSE <<>>

\* EncodingProposal::new: the weight, when given, must lie in [0, 1].
EncodingProposal_new(e, weight) ==
  IF weight # <<>> /\ (weight[1] < 0 \/ weight[1] > 10000)
  THEN [kind |-> "Err", entry |-> <<>>]
  ELSE [kind |-> "Ok", entry |-> <<[encoding |-> e, weight |-> weight]>>]

\* EncodingProposal::from_str on one part: a malformed weight (no number, or
\* a number outside [0, 1]) is an error whatever the coding; a coding that is
\* not known gives Ok(None), and so does a text that is no directive.
EncodingProposal_from_str(part) ==
  IF Len(part) # 1 \/ part[1].kind # "dir" THEN [kind |-> "Ok", entry |-> <<>>]
  ELSE LET d == part[1]
           w == IF d.qform = "number" THEN <<d.qval>> ELSE <<>>
           e == Encoding_from_str(d.coding)
       IN  IF d.qform = "garbage" THEN [kind |-> "Err", entry |-> <<>>]
           ELSE IF EncodingProposal_new("Identity", w).kind = "Err"
                THEN [kind |-> "Err", entry |-> <<>>]
           ELSE IF e = <<>> THEN [kind |-> "Ok", entry |-> <<>>]
           ELSE EncodingProposal_new(e[1], w)

Some(es, wc) == [kind |-> "Some", entries |-> es, wildcard |-> wc]

Absent == [kind |-> "None", entries |-> <<>>, wildcard |-> FALSE]

Failed == [kind |-> "Err", entries |-> <<>>, wildcard |-> FALSE]

\* The two nested loops of from_headers over the parts, from part i on, with
\* the entries and the wildcard flag collected so far.
RECURSIVE ParseLoop(_, _, _, _)
ParseLoop(parts, i, es, wc) ==
  IF i > Len(parts) THEN Some(es, wc)
  ELSE LET part == parts[i]
       IN  IF part = <<>> THEN ParseLoop(parts, i + 1, es, wc)
           ELSE IF part = <<Star>> THEN ParseLoop(parts, i + 1, es, TRUE)
           ELSE LET r == EncodingProposal_from_str(part)
                IN  IF r.kind = "Err" THEN Failed
                    ELSE ParseLoop(parts, i + 1, es \o r.entry, wc)

\* A parser that skips a directive it cannot parse.
RECURSIVE LenientLoop(_, _, _, _)
LenientLoop(parts, i, es, wc) ==
  IF i > Len(parts) THEN Some(es, wc)
  ELSE LET part == parts[i]
       IN  IF part = <<>> THEN LenientLoop(parts, i + 1, es, wc)
           ELSE IF part = <<Star>> THEN LenientLoop(parts, i + 1, es, TRUE)
           ELSE LET r == EncodingProposal_from_str(part)
                IN  LenientLoop(parts, i + 1,
                                IF r.kind = "Err" THEN es ELSE es \o r.entry, wc)

from_headers_lenient(h) ==
  IF h = <<>> THEN Absent ELSE LenientLoop(Flatten(h[1]), 1, <<>>, FALSE)

\* A parser that reports a header without usable content as absent.
from_headers_empty_is_absent(h) ==
  IF h = <<>> THEN Absent
  ELSE LET r == ParseLoop(Flatten(h[1]), 1, <<>>, FALSE)
       IN  IF r = Some(<<>>, FALSE) THEN Absent ELSE r

\* A parser that does not trim the parts it splits off.
from_headers_no_trim(h) ==
  IF h = <<>> THEN Absent ELSE ParseLoop(FlattenUntrimmed(h[1]), 1, <<>>, FALSE)

\* AcceptEncoding::from_headers on the header lookup h: None (<<>>) when the
\* name is not set, else Some of the values stored under it.
from_headers(h) ==
  IF h = <<>> THEN Absent ELSE ParseLoop(Flatten(h[1]), 1, <<>>, FALSE)

(* ----------------------------- serializer ----------------------------- *)

\* From<EncodingProposal> for HeaderValue: `coding` or `coding;q=value`.
ProposalText(e) ==
  IF e.weight = <<>>
  THEN <<Directive(EncodingText(e.encoding), "absent", 0)>>
  ELSE <<Directive(EncodingText(e.encoding), "number", e.weight[1])>>

\* The loop of value over the first n entries: the first directive as it is,
\* every later one after ", ".
RECURSIVE WriteEntries(_, _)
WriteEntries(es, n) ==
  IF n = 0 THEN <<>>
  ELSE WriteEntries(es, n - 1)
         \o (IF n = 1 THEN <<>> ELSE <<Comma, Space>>) \o ProposalText(es[n])

\* AcceptEncoding::value: the entries in their current order, then `*`.
value(es, wc) ==
  LET output == WriteEntries(es, Len(es))
  IN  IF ~wc THEN output
      ELSE IF Len(output) = 0 THEN <<Star>>
      ELSE output \o <<Comma, Space, Star>>

(* ------------------------- header operations -------------------------- *)

NumValues == IF headers = <<>> THEN 0 ELSE Len(headers[1])

NumParts == IF headers = <<>> THEN 0 ELSE Len(Flatten(headers[1]))

\* Headers::append with an empty value: one more occurrence of the header.
HeadersAppend ==
  /\ NumValues < MaxValues
  /\ NumParts < MaxParts
  /\ headers' = IF headers = <<>> THEN << << <<>> >> >>
                ELSE <<Append(headers[1], <<>>)>>
  /\ last' = Plain("append")
  /\ UNCHANGED <<entries, wildcard>>

\* The last occurrence's text grows by one comma separated part.
HeadersExtend(text) ==
  /\ headers # <<>>
  /\ LET vs == headers[1]
         v  == vs[Len(vs)]
     IN  /\ v # <<>> => NumParts < MaxParts
         /\ headers' = <<[vs EXCEPT ![Len(vs)] =
                            IF v = <<>> THEN text ELSE v \o <<Comma>> \o text]>>
  /\ last' = Plain("extend")
  /\ UNCHANGED <<entries, wildcard>>

\* A call that never returns leaves the program in it for good.
Returned == last.op # "apply"

\* AcceptEncoding::apply asks self.header_value() for the value to insert.
\* Header::header_value of AcceptEncoding calls itself, so that call does not
\* return: Headers::insert is never reached and the program stays in apply
\* (stack overflow or endless loop).
Apply ==
  /\ Returned
  /\ last' = Plain("apply")
  /\ UNCHANGED <<entries, wildcard, headers>>

\* The caller stores what AcceptEncoding::value returns with
\* Headers::insert, which replaces what was stored.
HeadersInsertValue ==
  /\ Returned
  /\ headers' = << <<value(entries, wildcard)>> >>
  /\ last' = Plain("value")
  /\ UNCHANGED <<entries, wildcard>>

FromHeaders ==
  /\ Returned
  /\ last' = Op("from_headers", <<>>, <<>>, NoOut, <<>>, from_headers(headers))
  /\ UNCHANGED <<entries, wildcard, headers>>

NextParse ==
  \/ HeadersAppend
  \/ \E text \in InputTexts : HeadersExtend(text)
  \/ FromHeaders

SpecParse == Init /\ [][NextParse]_vars

InitApply ==
  /\ entries \in BoundedSeq(Proposals, MaxApply)
  /\ wildcard \in BOOLEAN
  /\ headers = <<>>
  /\ last = Plain("new")

NextApply ==
  \/ Apply
  \/ HeadersInsertValue
  \/ FromHeaders

SpecApply == InitApply /\ [][NextApply]_vars

(* ----------------------- helpers of the properties -------------------- *)

Perms(n) == {f \in [1..n -> 1..n] : \A i, j \in 1..n : i # j => f[i] # f[j]}

Count(s, x) == Cardinality({i \in DOMAIN s : s[i] = x})

SameMultiset(s, t) ==
  /\ Len(s) = Len(t)
  /\ \A x \in Range(s) \cup Range(t) : Count(s, x) = Count(t, x)

HasWeight(e) == e.weight # <<>>

\* The positions of sorted whose encoding the server offers.
Matches(sorted, available) ==
  {k \in DOMAIN sorted : sorted[k].encoding \in Range(available)}

(* ------------------------- negotiate: C1, C2, C3 ---------------------- *)

\* C1: when some entry's encoding is a member of the available list,
\* negotiate succeeds with the encoding of the first such entry in the order
\* sort produces (which is also the order the entries are left in), whatever
\* the wildcard flag and the order of the available list are.
C1_FirstSortedMatch ==
  last.op = "negotiate" =>
    LET m == Matches(entries, last.avail)
    IN  /\ entries = sort(last.pre)
        /\ m # {} => last.out = Ok(entries[SetMin(m)].encoding)

\* A negotiation whose winner is not the server's first choice although the
\* server's first choice was proposed too.
C1_Witness ==
  /\ last.op = "negotiate"
  /\ Len(last.avail) = 2
  /\ Cardinality(Matches(entries, last.avail)) >= 2
  /\ last.out = Ok(last.avail[2])
  /\ \E k \in DOMAIN entries : entries[k].encoding = last.avail[1]

\* C2: with the wildcard flag set and no entry's encoding in the (non-empty)
\* available list, negotiate returns the first element of the available list.
C2_WildcardFallback ==
  (/\ last.op = "negotiate"
   /\ wildcard
   /\ Matches(entries, last.avail) = {}
   /\ last.avail # <<>>) => last.out = Ok(last.avail[1])

C2_Witness ==
  /\ last.op = "negotiate"
  /\ wildcard
  /\ entries # <<>>
  /\ Matches(entries, last.avail) = {}
  /\ Len(last.avail) = 2
  /\ last.out = Ok(last.avail[1])

\* C3: negotiate fails exactly when no entry's encoding is in the available
\* list and the wildcard flag is unset or the available list is empty; the
\* failure carries status 406 and every other call succeeds.
C3_NotAcceptableExactly ==
  last.op = "negotiate" =>
    /\ last.out.kind \in {"Ok", "Err"}
    /\ last.out.kind = "Err" <=>
         (/\ Matches(entries, last.avail) = {}
          /\ (~wildcard \/ last.avail = <<>>))
    /\ last.out.kind = "Err" => last.out.status = 406

C3_Witness ==
  /\ last.op = "negotiate"
  /\ last.out = Err(406)
  /\ entries # <<>>
  /\ last.avail # <<>>
  /\ ~wildcard

(* --------------------------- sort: C4, C5, C6 ------------------------- *)

\* C4 as stated: after sort the weights descend, a missing weight counting
\* as 1.0.
C4_NoneAsOneDescending ==
  last.op = "sort" =>
    LET eff(e) == IF HasWeight(e) THEN e.weight[1] ELSE 10000
    IN  \A k \in 1..(Len(entries) - 1) : eff(entries[k]) >= eff(entries[k + 1])

\* C4 amended: after sort the entries are in descending order of weight,
\* where an entry with no weight is ordered below every explicit weight: for
\* two adjacent entries the rank (the weight if present, else below 0.0) of
\* the earlier one is at least that of the later one.  An entry without a
\* weight never comes before an entry with an explicit weight.
C4_NoneLastDescending ==
  last.op = "sort" =>
    LET rank(e) == IF HasWeight(e) THEN e.weight[1] ELSE -1
    IN  /\ SameMultiset(entries, last.pre)
        /\ \A k \in 1..(Len(entries) - 1) : rank(entries[k]) >= rank(entries[k + 1])

\* A sort that moved an entry without weight behind an entry of weight 0.4.
C4_Witness ==
  /\ last.op = "sort"
  /\ Len(entries) >= 2
  /\ \E i, j \in DOMAIN last.pre :
       /\ i < j
       /\ ~HasWeight(last.pre[i])
       /\ last.pre[j].weight = <<4000>>
  /\ ~HasWeight(entries[Len(entries)])
  /\ HasWeight(entries[1])

\* C5: the sorted sequence is a rearrangement p of the declared one in which,
\* of two entries with equal explicit weight, the one declared later comes
\* first, and an entry with a strictly higher explicit weight comes before
\* both.
C5_EqualWeightLaterFirst ==
  last.op = "sort" =>
    \E p \in Perms(Len(last.pre)) :
      /\ Len(entries) = Len(last.pre)
      /\ \A k \in DOMAIN entries : entries[k] = last.pre[p[k]]
      /\ \A k1, k2 \in DOMAIN entries :
           (/\ HasWeight(entries[k1])
            /\ entries[k1].weight = entries[k2].weight
            /\ p[k1] > p[k2]) => k1 < k2
      /\ \A k1, k2 \in DOMAIN entries :
           (/\ HasWeight(entries[k1])
            /\ HasWeight(entries[k2])
            /\ entries[k1].weight[1] > entries[k2].weight[1]) => k1 < k2

\* Two different encodings declared with the same explicit weight, then an
\* entry of higher weight: sorted, the higher weight leads and the later of
\* the two equal ones precedes the earlier.
C5_Witness ==
  /\ last.op = "sort"
  /\ Len(last.pre) = 3
  /\ last.pre[1].weight = <<4000>>
  /\ last.pre[2].weight = <<4000>>
  /\ last.pre[3].weight = <<8000>>
  /\ last.pre[1].encoding # last.pre[2].encoding
  /\ entries = <<last.pre[3], last.pre[2], last.pre[1]>>

\* C6: after sort every entry with an explicit weight precedes every entry
\* without one, the explicit weights descend, and the entries without a
\* weight appear in the reverse of their declaration order.
C6_WeightedFirstUnweightedReversed ==
  last.op = "sort" =>
    /\ \A k1, k2 \in DOMAIN entries :
         (HasWeight(entries[k1]) /\ ~HasWeight(entries[k2])) => k1 < k2
    /\ \A k1, k2 \in DOMAIN entries :
         (/\ HasWeight(entries[k1]) /\ HasWeight(entries[k2]) /\ k1 < k2)
           => entries[k1].weight[1] >= entries[k2].weight[1]
    /\ LET bare(s) == SelectSeq(s, LAMBDA e : ~HasWeight(e))
           rev(s) == [k \in DOMAIN s |-> s[Len(s) + 1 - k]]
       IN  bare(entries) = rev(bare(last.pre))

\* The two sort tests: [gzip;q=0.4, identity, br;q=0.8] and, with weights
\* missing, [identity, gzip, br;q=0.8] both end as br, gzip, identity.
C6_Witness ==
  /\ last.op = "sort"
  /\ \/ last.pre = <<[encoding |-> "Gzip", weight |-> <<4000>>],
                     [encoding |-> "Identity", weight |-> <<>>],
                     [encoding |-> "Brotli", weight |-> <<8000>>]>>
     \/ last.pre = <<[encoding |-> "Identity", weight |-> <<>>],
                     [encoding |-> "Gzip", weight |-> <<>>],
                     [encoding |-> "Brotli", weight |-> <<8000>>]>>
  /\ [k \in DOMAIN entries |-> entries[k].encoding] = <<"Brotli", "Gzip", "Identity">>

(* ------------------------ repeated negotiate: C10 --------------------- *)

\* C10: a negotiate that directly follows a negotiate with the same
\* available list has the same outcome, and each call leaves the multiset of
\* entries unchanged.
C10_NegotiateRepeatable ==
  last.op = "negotiate" =>
    /\ SameMultiset(entries, last.pre)
    /\ last.prev # <<>> => last.prev[1] = last.out

(* -------------------------- parser: C7, C9 ---------------------------- *)

RECURSIVE Concat(_)
Concat(values) ==
  IF values = <<>> THEN <<>> ELSE Head(values) \o Concat(Tail(values))

\* The directives and wildcards of every occurrence of the header, in order.
HeaderTokens ==
  IF headers = <<>> THEN <<>>
  ELSE SelectSeq(Concat(headers[1]), LAMBDA a : a.kind \in {"dir", "star"})

Recognized(a) ==
  a.kind = "dir" /\ a.coding \in {"gzip", "br", "identity"}

MalformedWeight(a) ==
  /\ a.kind = "dir"
  /\ \/ a.qform = "garbage"
     \/ a.qform = "number" /\ (a.qval < 0 \/ a.qval > 10000)

SomeMalformedWeight ==
  \E i \in DOMAIN HeaderTokens : MalformedWeight(HeaderTokens[i])

\* The entries a header's recognized directives stand for, in header order.
Declared(tokens) ==
  LET known == SelectSeq(tokens, Recognized)
  IN  [k \in DOMAIN known |->
         [encoding |-> IF known[k].coding = "gzip" THEN "Gzip"
                       ELSE IF known[k].coding = "br" THEN "Brotli"
                       ELSE "Identity",
          weight |-> IF known[k].qform = "number" THEN <<known[k].qval>>
                     ELSE <<>>]]

\* C7: parsing fails as a whole, with no aggregate, whenever any directive
\* of any occurrence carries a malformed weight; it does not fail otherwise:
\* a directive with an unrecognized coding is dropped and the other
\* directives are kept in their declaration order.
C7_AnyMalformedWeightFails ==
  (last.op = "from_headers" /\ headers # <<>>) =>
    IF SomeMalformedWeight
    THEN last.res = Failed
    ELSE last.res.kind = "Some" /\ last.res.entries = Declared(HeaderTokens)

\* A failure caused by the second occurrence of the header, after the first
\* occurrence gave a good directive.
C7_Witness ==
  /\ last.op = "from_headers"
  /\ last.res = Failed
  /\ headers # <<>>
  /\ Len(headers[1]) = 2
  /\ headers[1][1] # <<>>
  /\ Recognized(headers[1][1][1])
  /\ ~MalformedWeight(headers[1][1][1])

\* C9 as stated: Ok(None) exactly for an absent header, an aggregate for
\* every present one, whose wildcard flag says whether a `*` part occurs.
C9_PresentGivesAggregate ==
  last.op = "from_headers" =>
    /\ last.res.kind = "None" <=> headers = <<>>
    /\ headers # <<>> => last.res.kind = "Some"
    /\ last.res.kind = "Some" =>
         last.res.wildcard = (\E i \in DOMAIN HeaderTokens : HeaderTokens[i].kind = "star")

\* C9 amended: Ok(None) exactly for an absent header; a present header gives
\* an error when some directive carries a malformed weight and an aggregate
\* in every other case, also when no part is a recognized directive, and
\* then the aggregate has no entries; the wildcard flag of the aggregate
\* says whether a `*` part occurs, however many there are.
C9_PresentGivesAggregateUnlessMalformed ==
  last.op = "from_headers" =>
    /\ last.res.kind = "None" <=> headers = <<>>
    /\ headers # <<>> =>
         /\ last.res.kind = "Err" <=> SomeMalformedWeight
         /\ last.res.kind = "Some" <=> ~SomeMalformedWeight
    /\ (/\ headers # <<>>
        /\ ~SomeMalformedWeight
        /\ \A i \in DOMAIN HeaderTokens : ~Recognized(HeaderTokens[i]))
         => last.res.kind = "Some" /\ last.res.entries = <<>>
    /\ last.res.kind = "Some" =>
         last.res.wildcard = (\E i \in DOMAIN HeaderTokens : HeaderTokens[i].kind = "star")

\* A present header with two wildcards and an unknown coding: an aggregate
\* without entries, wildcard set.
C9_Witness ==
  /\ last.op = "from_headers"
  /\ Len(HeaderTokens) = 3
  /\ Cardinality({i \in DOMAIN HeaderTokens : HeaderTokens[i].kind = "star"}) = 2
  /\ \E i \in DOMAIN HeaderTokens : HeaderTokens[i].kind = "dir"
  /\ last.res = Some(<<>>, TRUE)

(* --------------------------- round trip: C8 --------------------------- *)

\* The rendered value is one occurrence that lists the entries in their
\* current order, separated by commas, the wildcard last (alone as `*` when
\* there are no entries).
RenderedInOrder ==
  headers # <<>> =>
    /\ Len(headers[1]) = 1
    /\ Len(HeaderTokens) = Len(entries) + (IF wildcard THEN 1 ELSE 0)
    /\ Cardinality({i \in DOMAIN headers[1][1] : headers[1][1][i].kind = "comma"})
         = IF HeaderTokens = <<>> THEN 0 ELSE Len(HeaderTokens) - 1
    /\ \A k \in DOMAIN entries :
         /\ HeaderTokens[k].kind = "dir"
         /\ <<HeaderTokens[k].coding, entries[k].encoding>> \in
              {<<"gzip", "Gzip">>, <<"br", "Brotli">>, <<"identity", "Identity">>}
         /\ HeaderTokens[k].qform = IF HasWeight(entries[k]) THEN "number" ELSE "absent"
         /\ HasWeight(entries[k]) => HeaderTokens[k].qval = entries[k].weight[1]
    /\ wildcard => HeaderTokens[Len(HeaderTokens)].kind = "star"
    /\ (wildcard /\ entries = <<>>) => headers[1][1] = <<Star>>

\* C8: parsing the header value that AcceptEncoding::value returns gives
\* back the same entries in the same order, with the same weights, and the
\* same wildcard flag; the value is not re-sorted and has the wildcard last.
C8_RoundTrip ==
  /\ RenderedInOrder
  /\ (last.op = "from_headers" /\ headers # <<>>) =>
       last.res = Some(entries, wildcard)

\* An unsorted aggregate with weights and the wildcard, parsed back whole.
C8_Witness ==
  /\ last.op = "from_headers"
  /\ headers # <<>>
  /\ wildcard
  /\ Len(entries) = 2
  /\ entries[1].weight = <<4000>>
  /\ entries[2].weight = <<8000>>
  /\ last.res = Some(entries, TRUE)

====
